---- MODULE Spec2Model ----
(***************************************************************************)
(* FileSystemGraph (src/graph.cpp, second translation unit, lines 81-297): *)
(* an adjacency map from fs::path to a vector of fs::path, filled by       *)
(* addVertex / addEdge / buildGraph and queried by shortestPath and        *)
(* minSpanTree.                                                            *)
(*                                                                         *)
(* A path is modelled by its rank in the order std::map<fs::path,...> and  *)
(* std::set<fs::path> iterate in: 0 is the empty path fs::path(""), which  *)
(* compares less than every other path; 1, 2, ... are non-empty paths in   *)
(* increasing order.                                                       *)
(***************************************************************************)
EXTENDS Integers, Sequences, FiniteSets, Bags, TLC

VARIABLES
    adjList,    \* std::map<fs::path, std::vector<fs::path>> adjList
    fs,         \* the file system buildGraph reads (external collaborator)
    pc,         \* where the program is: idle, inside a query, finished, or dead
    call,       \* the public method called last and its arguments
    distances,  \* shortestPath: std::map<fs::path, int> distances when it ended
    previous,   \* shortestPath: std::map<fs::path, fs::path> previous when it ended
    unvisited,  \* shortestPath: std::set<fs::path> unvisited when it ended
    path,       \* shortestPath: the returned std::vector<fs::path>
    tree,       \* minSpanTree: the returned map
    visited,    \* minSpanTree: std::set<fs::path> visited when it ended
    logged,     \* buildGraph: number of e.what() lines written to std::cerr
    adj0,       \* adjList as it was when the last query was entered
    added,      \* every path passed to addVertex or used as an endpoint of addEdge
    edgeLog     \* per source, the destinations of the addEdge calls, in call order

vars == <<adjList, fs, pc, call, distances, previous, unvisited, path, tree,
          visited, logged, adj0, added, edgeLog>>

----------------------------------------------------------------------------
(* Bounds *)

MaxPath == 2
MaxEdges == 3
MaxFsPath == 3

(* Program constants *)

EmptyPath == 0
IntMax == 2147483647

IntMin == (-IntMax) - 1
Paths == 0..MaxPath
FsPaths == 1..MaxFsPath

----------------------------------------------------------------------------
(* Containers *)

Range(s) == {s[i] : i \in 1..Len(s)}

EmptyMap == <<>>

\* std::map::operator[]: the map after m[k] was evaluated; a missing key is
\* inserted with a value-initialised mapped value.
MapIndex(m, k, dflt) == IF k \in DOMAIN m THEN m ELSE (k :> dflt) @@ m

\* The elements of a std::set / the keys of a std::map in iteration order.
RECURSIVE SortedSeq(_)
SortedSeq(S) ==
    IF S = {} THEN <<>>
    ELSE LET m == CHOOSE x \in S : \A y \in S : x <= y
         IN <<m>> \o SortedSeq(S \ {m})

RECURSIVE EdgeCount(_)
EdgeCount(adj) ==
    IF DOMAIN adj = {} THEN 0
    ELSE LET v == CHOOSE x \in DOMAIN adj : TRUE
         IN Len(adj[v]) + EdgeCount([w \in (DOMAIN adj) \ {v} |-> adj[w]])

----------------------------------------------------------------------------
(* Graph Store: addVertex, addEdge *)

addVertexReset(adj, p) == (p :> <<>>) @@ adj

addVertex(adj, p) == IF p \in DOMAIN adj THEN adj ELSE (p :> <<>>) @@ adj

addEdgeNoDest(adj, source, destination) ==
    LET a == addVertex(adj, source)
    IN [a EXCEPT ![source] = Append(@, destination)]

addEdge(adj, source, destination) ==
    LET a == addVertex(addVertex(adj, source), destination)
        b == MapIndex(a, source, <<>>)
    IN [b EXCEPT ![source] = Append(@, destination)]

----------------------------------------------------------------------------
(* Directory Enumerator: what fs::exists, fs::is_directory and                *)
(* fs::directory_iterator report.  Paths 2 and 3 are entries of path 1, and  *)
(* every later path p is an entry of p - 1, so that a directory orders       *)
(* before its entries as fs::path comparison has it.                          *)

Parent(p) == IF p = 1 THEN EmptyPath ELSE IF p <= 3 THEN 1 ELSE p - 1

Kinds == {"none", "file", "dir"}

Kind(f, p) == IF p \in DOMAIN f.kind THEN f.kind[p] ELSE "none"

\* kind     : what each path is
\* statFail : paths whose status query (fs::exists, fs::is_directory) throws
\* listFail : directories whose directory_iterator cannot be opened
\* incFail  : entries after which advancing the directory_iterator throws
\* rev      : the enumerator yields entries in descending instead of ascending order
FileSystems ==
    {f \in [kind : [FsPaths -> Kinds], statFail : SUBSET FsPaths,
            listFail : SUBSET FsPaths, incFail : SUBSET FsPaths, rev : BOOLEAN] :
        /\ \A p \in FsPaths :
              (f.kind[p] # "none" /\ p # 1) => Kind(f, Parent(p)) = "dir"
        /\ \A p \in f.statFail : f.kind[p] # "none"
        /\ \A p \in f.listFail : f.kind[p] = "dir"
        /\ \A p \in f.incFail : f.kind[p] # "none" /\ p # 1}

\* A directory with one sub-directory and one file and no failing operation.
HealthyFS ==
    [kind |-> [p \in FsPaths |-> IF p = 1 \/ p = 2 THEN "dir"
                                 ELSE IF p = 3 THEN "file" ELSE "none"],
     statFail |-> {}, listFail |-> {}, incFail |-> {}, rev |-> FALSE]

Reverse(s) == [i \in 1..Len(s) |-> s[Len(s) + 1 - i]]

\* The entries fs::directory_iterator(d) yields, in the order it yields them.
Entries(f, d) ==
    LET es == SortedSeq({p \in FsPaths : Parent(p) = d /\ f.kind[p] # "none"})
    IN IF f.rev THEN Reverse(es) ELSE es

----------------------------------------------------------------------------
(* Graph Builder: buildGraph.  st = [adj, threw, logged, calls]: the store,  *)
(* whether a filesystem_error is propagating, the lines written to cerr and  *)
(* the addEdge calls made so far.                                            *)

RECURSIVE buildGraph(_, _, _)
RECURSIVE buildEntries(_, _, _, _)

\* One pass of the for loop of buildGraph over the entries es still to come.
buildEntries(st, root, es, f) ==
    IF es = <<>> THEN st
    ELSE LET e == Head(es)
             s1 == [st EXCEPT !.adj = addEdge(@, root, e),
                              !.calls = Append(@, <<root, e>>)]
             s2 == IF e \in f.statFail
                   THEN [s1 EXCEPT !.logged = @ + 1]
                   ELSE IF Kind(f, e) = "dir"
                        THEN LET r == buildGraph(s1, e, f)
                             IN IF r.threw
                                THEN [r EXCEPT !.threw = FALSE, !.logged = @ + 1]
                                ELSE r
                        ELSE s1
         IN IF e \in f.incFail
            THEN [s2 EXCEPT !.threw = TRUE]
            ELSE buildEntries(s2, root, Tail(es), f)

buildGraph(st, root, f) ==
    IF root \in f.statFail THEN [st EXCEPT !.threw = TRUE]
    ELSE IF Kind(f, root) # "dir" THEN st
    ELSE IF root \in f.listFail THEN [st EXCEPT !.threw = TRUE]
    ELSE buildEntries(st, root, Entries(f, root), f)

----------------------------------------------------------------------------
(* Shortest Path Engine: shortestPath *)

\* int + 1 in 32-bit two's complement: the wrap-around outcome of the signed
\* overflow of INT_MAX + 1.
Inc32(d) == IF d = IntMax THEN IntMin ELSE d + 1

\* Lines 170-175: current = *unvisited.begin(), then a scan in set order that
\* moves to a path only on a strictly smaller distance.
RECURSIVE ScanMin(_, _, _)
ScanMin(s, dist, current) ==
    IF s = <<>> THEN current
    ELSE LET d == MapIndex(dist, Head(s), 0)
         IN ScanMin(Tail(s), d,
                    IF d[Head(s)] < d[current] THEN Head(s) ELSE current)

SelectCurrent(unv, dist) ==
    LET s == SortedSeq(unv) IN ScanMin(s, MapIndex(dist, Head(s), 0), Head(s))

\* Lines 183-189: the relaxation loop over adjList[current]; dp = <<distances,
\* previous>>.
RECURSIVE Relax(_, _, _)
Relax(nbrs, current, dp) ==
    IF nbrs = <<>> THEN dp
    ELSE LET n == Head(nbrs)
             d == MapIndex(dp[1], n, 0)
             alt == Inc32(d[current])
         IN IF alt < d[n]
            THEN Relax(Tail(nbrs), current,
                       <<[d EXCEPT ![n] = alt],
                         [MapIndex(dp[2], n, EmptyPath) EXCEPT ![n] = current]>>)
            ELSE Relax(Tail(nbrs), current, <<d, dp[2]>>)

\* Lines 192-196: for (p = destination; p != ""; p = previous[p]) push_back(p),
\* then std::reverse.  The loop does not end when previous holds a cycle.
RECURSIVE Walk(_, _, _)
Walk(p, prev, acc) ==
    IF p = EmptyPath THEN [hung |-> FALSE, path |-> Reverse(acc)]
    ELSE IF p \in Range(acc) THEN [hung |-> TRUE, path |-> <<>>]
    ELSE Walk(MapIndex(prev, p, EmptyPath)[p], prev, Append(acc, p))

Reconstruct(destination, prev) == Walk(destination, prev, <<>>)

\* Lines 169-190: the while loop; st = [adj, distances, previous, unvisited,
\* trapped].  When the selected vertex still has distance INT_MAX and has a
\* neighbour, distances[current] + 1 overflows a signed int: the behaviour is
\* undefined, and the build either wraps around or traps (overflow names
\* which).
RECURSIVE spLoop(_, _, _)
spLoop(st, destination, overflow) ==
    IF st.unvisited = {} THEN st
    ELSE LET current == SelectCurrent(st.unvisited, st.distances)
         IN IF current = destination THEN st
            ELSE LET adj == MapIndex(st.adj, current, <<>>)
                     nbrs == adj[current]
                     unv == st.unvisited \ {current}
                 IN IF /\ st.distances[current] = IntMax
                       /\ nbrs # <<>>
                       /\ overflow = "trap"
                    THEN [st EXCEPT !.adj = adj, !.unvisited = unv,
                                    !.trapped = TRUE]
                    ELSE LET dp == Relax(nbrs, current,
                                         <<st.distances, st.previous>>)
                         IN spLoop([adj |-> adj, distances |-> dp[1],
                                    previous |-> dp[2], unvisited |-> unv,
                                    trapped |-> FALSE],
                                   destination, overflow)

\* Lines 192-198 after the loop has ended in st.
spReturn(st, r) ==
    [adj |-> st.adj, distances |-> st.distances, previous |-> st.previous,
     unvisited |-> st.unvisited,
     path |-> IF st.trapped THEN <<>> ELSE r.path,
     end |-> IF st.trapped THEN "trap"
             ELSE IF r.hung THEN "hung" ELSE "spDone"]

\* Lines 156-199.
shortestPath(adj, source, destination, overflow) ==
    LET st == CHOOSE x \in
                 {spLoop([adj |-> adj,
                          distances |-> (source :> 0) @@ [v \in DOMAIN adj |-> IntMax],
                          previous |-> [v \in DOMAIN adj |-> EmptyPath],
                          unvisited |-> DOMAIN adj,
                          trapped |-> FALSE],
                         destination, overflow)} : TRUE
    IN spReturn(st, Reconstruct(destination, st.previous))

----------------------------------------------------------------------------
(* Minimum Spanning Tree Engine: minSpanTree *)

\* adjList.begin()->first
StartVertexLast(adj) == CHOOSE x \in DOMAIN adj : \A y \in DOMAIN adj : y <= x

StartVertex(adj) == CHOOSE x \in DOMAIN adj : \A y \in DOMAIN adj : x <= y

\* pq.top() under std::greater<> on std::pair<int, fs::path>
PqTop(q) ==
    CHOOSE x \in BagToSet(q) :
        \A y \in BagToSet(q) : x[1] < y[1] \/ (x[1] = y[1] /\ x[2] <= y[2])

PqPush(q, x) == q (+) SetToBag({x})

PqPop(q) == q (-) SetToBag({PqTop(q)})

\* Lines 220-225: the loop over adjList[current]; tq = <<tree, pq>>.
RECURSIVE VisitNeighborsFirstOnly(_, _, _, _)
VisitNeighborsFirstOnly(nbrs, current, vis, tq) ==
    IF nbrs = <<>> THEN tq
    ELSE LET n == Head(nbrs)
         IN IF n \notin vis
            THEN <<[MapIndex(tq[1], current, <<>>) EXCEPT ![current] = Append(@, n)],
                   PqPush(tq[2], <<1, n>>)>>
            ELSE VisitNeighborsFirstOnly(Tail(nbrs), current, vis, tq)

RECURSIVE VisitNeighbors(_, _, _, _)
VisitNeighbors(nbrs, current, vis, tq) ==
    IF nbrs = <<>> THEN tq
    ELSE LET n == Head(nbrs)
         IN IF n \notin vis
            THEN VisitNeighbors(Tail(nbrs), current, vis,
                     <<[MapIndex(tq[1], current, <<>>) EXCEPT ![current] = Append(@, n)],
                       PqPush(tq[2], <<1, n>>)>>)
            ELSE VisitNeighbors(Tail(nbrs), current, vis, tq)

\* Lines 210-226: the while loop; st = [adj, tree, visited, pq].
RECURSIVE mstLoop(_)
mstLoop(st) ==
    IF BagToSet(st.pq) = {} THEN st
    ELSE LET current == PqTop(st.pq)[2]
             q == PqPop(st.pq)
         IN IF current \in st.visited
            THEN mstLoop([st EXCEPT !.pq = q])
            ELSE LET adj == MapIndex(st.adj, current, <<>>)
                     vis == st.visited \cup {current}
                     tq == VisitNeighbors(adj[current], current, vis, <<st.tree, q>>)
                 IN mstLoop([adj |-> adj, tree |-> tq[1], visited |-> vis,
                             pq |-> tq[2]])

\* Lines 203-228 once start has been read.
minSpanTree(adj, start) ==
    mstLoop([adj |-> adj, tree |-> EmptyMap, visited |-> {},
             pq |-> PqPush(EmptyBag, <<0, start>>)])

----------------------------------------------------------------------------
(* The program: a FileSystemGraph object and the calls main makes on it, one *)
(* after the other.                                                          *)

NoCall == [op |-> "none", a |-> EmptyPath, b |-> EmptyPath]

NoQueryState ==
    /\ distances = EmptyMap /\ previous = EmptyMap /\ unvisited = {}
    /\ path = <<>> /\ tree = EmptyMap /\ visited = {}

\* A FileSystemGraph right after construction (line 235 / 285).
Init ==
    /\ adjList = EmptyMap
    /\ fs = HealthyFS
    /\ pc = "idle"
    /\ call = NoCall
    /\ NoQueryState
    /\ logged = 0
    /\ adj0 = EmptyMap
    /\ added = {}
    /\ edgeLog = [p \in {} |-> <<>>]

\* The same object, in front of any file system.
InitBuild ==
    /\ adjList = EmptyMap
    /\ fs \in FileSystems
    /\ pc = "idle"
    /\ call = NoCall
    /\ NoQueryState
    /\ logged = 0
    /\ adj0 = EmptyMap
    /\ added = {}
    /\ edgeLog = [p \in {} |-> <<>>]

\* main is between two statements and can make a call.
Ready == pc = "idle"

\* The locals and the result of the previous query are gone.
DropQuery ==
    /\ distances' = EmptyMap /\ previous' = EmptyMap /\ unvisited' = {}
    /\ path' = <<>> /\ tree' = EmptyMap /\ visited' = {}

\* The reference record of one addEdge(s, d) call.
LogEdge(log, s, d) ==
    [MapIndex(log, s, <<>>) EXCEPT ![s] = Append(@, d)]

RECURSIVE LogEdges(_, _)
LogEdges(log, calls) ==
    IF calls = <<>> THEN log
    ELSE LogEdges(LogEdge(log, Head(calls)[1], Head(calls)[2]), Tail(calls))

AddVertex(p) ==
    /\ Ready
    /\ adjList' = addVertex(adjList, p)
    /\ pc' = "stored"
    /\ call' = [op |-> "addVertex", a |-> p, b |-> EmptyPath]
    /\ added' = added \cup {p}
    /\ adj0' = adjList'
    /\ logged' = 0
    /\ DropQuery
    /\ UNCHANGED <<fs, edgeLog>>

AddEdge(source, destination) ==
    /\ Ready
    /\ EdgeCount(adjList) < MaxEdges
    /\ adjList' = addEdge(adjList, source, destination)
    /\ pc' = "stored"
    /\ call' = [op |-> "addEdge", a |-> source, b |-> destination]
    /\ added' = added \cup {source, destination}
    /\ edgeLog' = LogEdge(edgeLog, source, destination)
    /\ adj0' = adjList'
    /\ logged' = 0
    /\ DropQuery
    /\ UNCHANGED fs

\* buildGraph(root) called from main: a filesystem_error that leaves it is
\* caught by nobody and ends the program.
BuildGraph(root) ==
    /\ Ready
    /\ \E r \in {buildGraph([adj |-> adjList, threw |-> FALSE, logged |-> 0,
                             calls |-> <<>>], root, fs)} :
          /\ EdgeCount(r.adj) <= MaxEdges
          /\ adjList' = r.adj
          /\ pc' = IF r.threw THEN "uncaught" ELSE "stored"
          /\ logged' = r.logged
          /\ added' = added \cup {c[1] : c \in Range(r.calls)}
                            \cup {c[2] : c \in Range(r.calls)}
          /\ edgeLog' = LogEdges(edgeLog, r.calls)
    /\ call' = [op |-> "buildGraph", a |-> root, b |-> EmptyPath]
    /\ adj0' = adjList'
    /\ DropQuery
    /\ UNCHANGED fs

\* shortestPath(source, destination) called from main.  The loop that walks
\* previous never ends when previous holds a cycle (pc "hung").
ShortestPath(source, destination) ==
    /\ Ready
    /\ \E overflow \in {"wrap", "trap"} :
          \E r \in {shortestPath(adjList, source, destination, overflow)} :
             /\ adjList' = r.adj
             /\ distances' = r.distances
             /\ previous' = r.previous
             /\ unvisited' = r.unvisited
             /\ path' = r.path
             /\ pc' = r.end
    /\ call' = [op |-> "shortestPath", a |-> source, b |-> destination]
    /\ adj0' = adjList
    /\ tree' = EmptyMap
    /\ visited' = {}
    /\ logged' = 0
    /\ UNCHANGED <<fs, added, edgeLog>>

\* minSpanTree() called from main.  On an empty map adjList.begin() is end(),
\* and reading ->first through it (line 207) is undefined: the build traps or
\* reads some path.
MinSpanTree ==
    /\ Ready
    /\ \E garbage \in Paths, outcome \in {"read", "trap"} :
          LET empty == DOMAIN adjList = {}
              start == IF empty THEN garbage ELSE StartVertex(adjList)
          IN IF empty /\ outcome = "trap"
             THEN /\ pc' = "trap"
                  /\ tree' = EmptyMap
                  /\ visited' = {}
                  /\ UNCHANGED adjList
             ELSE \E r \in {minSpanTree(adjList, start)} :
                     /\ pc' = "mstDone"
                     /\ tree' = r.tree
                     /\ visited' = r.visited
                     /\ adjList' = r.adj
    /\ call' = [op |-> "minSpanTree", a |-> EmptyPath, b |-> EmptyPath]
    /\ adj0' = adjList
    /\ distances' = EmptyMap /\ previous' = EmptyMap /\ unvisited' = {}
    /\ path' = <<>>
    /\ logged' = 0
    /\ UNCHANGED <<fs, added, edgeLog>>

\* The call has returned: main lets go of its result and moves on to its next
\* statement.
Continue ==
    /\ pc \in {"stored", "spDone", "mstDone"}
    /\ pc' = "idle"
    /\ call' = NoCall
    /\ adj0' = adjList
    /\ logged' = 0
    /\ DropQuery
    /\ UNCHANGED <<adjList, fs, added, edgeLog>>

QueryPaths == Paths \cup DOMAIN adjList

Next ==
    \/ \E p \in Paths : AddVertex(p)
    \/ \E s \in Paths, d \in Paths : AddEdge(s, d)
    \/ \E r \in Paths \cup FsPaths : BuildGraph(r)
    \/ \E s \in QueryPaths, d \in QueryPaths : ShortestPath(s, d)
    \/ MinSpanTree
    \/ Continue

NextStore ==
    \/ \E p \in Paths : AddVertex(p)
    \/ \E s \in Paths, d \in Paths : AddEdge(s, d)
    \/ \E r \in Paths \cup FsPaths : BuildGraph(r)
    \/ Continue

NextBuild ==
    \/ \E r \in Paths \cup FsPaths : BuildGraph(r)
    \/ \E p \in Paths : AddVertex(p)
    \/ Continue

Spec == Init /\ [][Next]_vars

SpecStore == Init /\ [][NextStore]_vars

SpecBuild == InitBuild /\ [][NextBuild]_vars

----------------------------------------------------------------------------
(* Graph notions the properties are stated in *)

Vertices(adj) == DOMAIN adj

Succ(adj, v) == IF v \in DOMAIN adj THEN Range(adj[v]) ELSE {}

RECURSIVE Closure(_, _)
Closure(adj, S) ==
    LET N == S \cup UNION {Succ(adj, v) : v \in S}
    IN IF N = S THEN S ELSE Closure(adj, N)

\* The vertices reachable from s along directed edges in zero or more hops.
ReachableFrom(adj, s) == Closure(adj, {s})

RECURSIVE HopsFrom(_, _, _, _)
HopsFrom(adj, seen, t, k) ==
    IF t \in seen THEN k
    ELSE HopsFrom(adj, seen \cup UNION {Succ(adj, v) : v \in seen}, t, k + 1)

\* The least number of edges on a walk from s to t, for t reachable from s.
MinHops(adj, s, t) == HopsFrom(adj, {s}, t, 0)

Connected(adj, s, t) ==
    s \in Vertices(adj) /\ t \in Vertices(adj) /\ t \in ReachableFrom(adj, s)

IsWalk(adj, w) == \A i \in 1..(Len(w) - 1) : w[i + 1] \in Succ(adj, w[i])

FirstVertex(adj) == SortedSeq(Vertices(adj))[1]

Occurrences(s, x) == Cardinality({i \in 1..Len(s) : s[i] = x})

NoDuplicateEdges(adj) ==
    \A v \in Vertices(adj) : \A x \in Range(adj[v]) : Occurrences(adj[v], x) = 1

Children(t) == UNION {Range(t[k]) : k \in DOMAIN t}

TreeParents(t, c) == {k \in DOMAIN t : c \in Range(t[k])}

\* adj is a star with root r: r has at least one neighbour, each once, none
\* of them r, and there is no other vertex and no other edge.
IsStar(adj, r) ==
    /\ r \in Vertices(adj)
    /\ adj[r] # <<>>
    /\ r \notin Range(adj[r])
    /\ \A x \in Range(adj[r]) : Occurrences(adj[r], x) = 1
    /\ Vertices(adj) = {r} \cup Range(adj[r])
    /\ \A v \in Vertices(adj) \ {r} : adj[v] = <<>>

SPCalled == call.op = "shortestPath"
SPEnded == SPCalled /\ pc \in {"spDone", "hung", "trap"}
MSTCalled == call.op = "minSpanTree"
MSTDone == MSTCalled /\ pc = "mstDone"

----------------------------------------------------------------------------
(* Shortest Path Engine *)

\* C1: whenever destination is reachable from source (both vertices),
\* shortestPath returns a walk of the graph from source to destination with
\* exactly MinHops + 1 vertices.
C1_ShortestPathIsShortest ==
    (SPEnded /\ Connected(adj0, call.a, call.b)) =>
        /\ pc = "spDone"
        /\ Len(path) = MinHops(adj0, call.a, call.b) + 1
        /\ path[1] = call.a
        /\ path[Len(path)] = call.b
        /\ IsWalk(adj0, path)

\* The statement of C1 for graphs in which the empty path is not a vertex:
\* there the sentinel "" of previous is no vertex and the result is right.
ShortestPathWithoutEmptyPathVertex ==
    (SPEnded /\ Connected(adj0, call.a, call.b) /\ EmptyPath \notin Vertices(adj0)) =>
        /\ pc = "spDone"
        /\ Len(path) = MinHops(adj0, call.a, call.b) + 1
        /\ path[1] = call.a
        /\ path[Len(path)] = call.b
        /\ IsWalk(adj0, path)

\* C2: whenever destination is not reachable from source, shortestPath ends
\* in an explicit "no path" outcome and returns no vertex sequence.
C2_UnreachableReportsNoPath ==
    (SPEnded /\ ~Connected(adj0, call.a, call.b)) =>
        (pc = "noPath" /\ path = <<>>)

\* C8: during a query no vertex that still has distance INT_MAX is selected
\* and relaxed, INT_MAX + 1 is never computed, and every distance of a vertex
\* is INT_MAX or a hop count in 0 .. (number of vertices - 1).
C8_DistancesNeverOverflow ==
    SPCalled =>
        /\ pc # "trap"
        /\ \A v \in Vertices(adj0) \ unvisited :
              adj0[v] # <<>> => distances[v] # IntMax
        /\ \A v \in Vertices(adj0) :
              \/ distances[v] = IntMax
              \/ 0 <= distances[v] /\ distances[v] < Cardinality(Vertices(adj0))

----------------------------------------------------------------------------
(* Minimum Spanning Tree Engine *)

\* C3: minSpanTree on a graph without vertices ends in an "empty graph"
\* failure and does nothing else.
C3_EmptyGraphIsReported ==
    (MSTCalled /\ Vertices(adj0) = {}) => pc = "emptyGraph"

\* C5: on a non-empty graph the result covers exactly what is reachable from
\* the first vertex: every key and every child is reachable from it, and
\* every vertex reachable from it, other than itself, is a child.
C5_TreeCoversReachablePart ==
    (MSTDone /\ Vertices(adj0) # {}) =>
        LET R == ReachableFrom(adj0, FirstVertex(adj0))
        IN /\ (DOMAIN tree) \cup Children(tree) \subseteq R
           /\ R \ {FirstVertex(adj0)} \subseteq Children(tree)

C5_Witness ==
    /\ MSTDone
    /\ Vertices(adj0) # {}
    /\ Vertices(adj0) \ ReachableFrom(adj0, FirstVertex(adj0)) # {}
    /\ Cardinality(ReachableFrom(adj0, FirstVertex(adj0))) >= 2
    /\ Children(tree) # {}

\* C6 as stated: on every star, whatever the names, the root is the only
\* tree-parent and has exactly its children as tree-children.
C6_StarAnyNames ==
    \A r \in Vertices(adj0) :
        (MSTDone /\ IsStar(adj0, r)) =>
            (DOMAIN tree = {r} /\ tree[r] = adj0[r])

\* C6 amended: on every star whose root is the first vertex of the store's
\* iteration order, the root is the only tree-parent and has exactly its
\* children as tree-children.
C6_StarRootFirst ==
    \A r \in Vertices(adj0) :
        (MSTDone /\ IsStar(adj0, r) /\ r = FirstVertex(adj0)) =>
            (DOMAIN tree = {r} /\ tree[r] = adj0[r])

C6_Witness ==
    /\ MSTDone
    /\ Vertices(adj0) # {}
    /\ IsStar(adj0, FirstVertex(adj0))
    /\ Len(adj0[FirstVertex(adj0)]) >= 2
    /\ DOMAIN tree = {FirstVertex(adj0)}

\* C10: on a non-empty graph without duplicate edges the result is a tree
\* rooted at the first vertex: the first vertex is no child, no vertex is a
\* child twice, and there is one tree edge less than vertices reached.
C10_ResultIsATree ==
    (MSTDone /\ Vertices(adj0) # {} /\ NoDuplicateEdges(adj0)) =>
        /\ FirstVertex(adj0) \notin Children(tree)
        /\ \A c \in Children(tree) :
              /\ Cardinality(TreeParents(tree, c)) = 1
              /\ \A k \in TreeParents(tree, c) : Occurrences(tree[k], c) = 1
        /\ EdgeCount(tree) = Cardinality({FirstVertex(adj0)} \cup Children(tree)) - 1

----------------------------------------------------------------------------
(* Graph Store *)

\* C4: the store is the reference model of the calls made: its vertices are
\* the paths passed to addVertex or used as an endpoint of addEdge, and the
\* neighbours of a vertex are the destinations of its addEdge calls in call
\* order, duplicates kept.
C4_StoreIsReferenceModel ==
    /\ Vertices(adjList) = added
    /\ \A v \in added :
          adjList[v] = IF v \in DOMAIN edgeLog THEN edgeLog[v] ELSE <<>>

C4_Witness ==
    /\ call.op = "addVertex"
    /\ call.a \in Vertices(adjList)
    /\ \E x \in Range(adjList[call.a]) : Occurrences(adjList[call.a], x) = 2

\* C9: a shortestPath call, and a minSpanTree call on a non-empty graph,
\* leave the vertex set and every neighbour list as they were at the call.
C9_QueriesOnlyRead ==
    (SPCalled \/ (MSTCalled /\ Vertices(adj0) # {})) => adjList = adj0

C9_Witness ==
    /\ MSTDone
    /\ Cardinality(visited) >= 3
    /\ \E v \in visited : adj0[v] = <<>>

----------------------------------------------------------------------------
(* Graph Builder *)

\* The directories a build from root that skips every failure opens.
RECURSIVE ListedBelow(_, _)
ListedBelow(f, d) ==
    {d} \cup UNION {ListedBelow(f, e) :
                      e \in {x \in Range(Entries(f, d)) :
                               /\ x \notin f.statFail
                               /\ Kind(f, x) = "dir"
                               /\ x \notin f.listFail}}

Listed(f, root) ==
    IF root \notin f.statFail /\ Kind(f, root) = "dir" /\ root \notin f.listFail
    THEN ListedBelow(f, root) ELSE {}

\* C7: buildGraph lets no failure of the file system reach its caller, and
\* records the edge (d, e) for every accessible entry e of every directory d
\* it could list.
C7_BuildNeverAborts ==
    call.op = "buildGraph" =>
        /\ pc # "uncaught"
        /\ \A d \in Listed(fs, call.a) :
              \A e \in Range(Entries(fs, d)) :
                  e \notin fs.statFail => e \in Succ(adjList, d)

====
